---- MODULE Spec2Model ----
(***************************************************************************)
(* Role-mapping store, OPA synchronisation and process start-up of the     *)
(* OPA permission API.                                                     *)
(*                                                                         *)
(* The model follows app/repositories/role_mapping_repository.py,          *)
(* app/services/role_mapping_service.py, app/services/opa_service.py,      *)
(* app/routers/role_mappings.py and app/main.py.  Requests are handled by  *)
(* concurrent workers; a step of a request is one database statement       *)
(* (or transaction commit) or one HTTP call to the engine.                 *)
(***************************************************************************)
EXTENDS Naturals, Integers, Sequences, FiniteSets, TLC

\* ------------------------------------------------------------------ bounds
NumReqs == 2
MaxOps == 2

Reqs == 1..NumReqs

Apps == {"app-a", "app-b"}
Envs == {"DEV", "PROD"}
Groups == {"grp-admin"}
Roles == {"admin", "user"}

\* Python's None (an Optional field that was not supplied, an absent id).
None == "None"

\* ------------------------------------------------------------------ rows
\* A row the session has not loaded / a request that carries no row.
NoRow ==
  [id |-> 0, application_id |-> None, environment |-> None,
   ad_group |-> None, role |-> None]

RoleMapping(id, app, env, grp, role) ==
  [id |-> id, application_id |-> app, environment |-> env,
   ad_group |-> grp, role |-> role]

Triple(x) == <<x.application_id, x.environment, x.ad_group>>

\* UniqueConstraint('application_id', 'environment', 'ad_group'): the key the
\* database's unique index is built on.
uq_key_wrong(x) == <<x.application_id, x.environment, x.ad_group, x.role>>
uq_app_env_adgroup(x) == <<x.application_id, x.environment, x.ad_group>>

\* The table contents satisfy the unique index.
UniqueOk(rows) ==
  \A x \in rows : \A y \in rows :
    x.id # y.id => uq_app_env_adgroup(x) # uq_app_env_adgroup(y)

\* ------------------------------------------------------------------ documents
EmptyDict == [k \in {} |-> None]

DictPut(d, k, v) == [x \in (DOMAIN d) \cup {k} |-> IF x = k THEN v ELSE d[x]]

\* The rows of a query in the order the database returns them (by primary key).
RECURSIVE RowSeq(_)
RowSeq(rows) ==
  IF rows = {} THEN <<>>
  ELSE LET m == CHOOSE x \in rows : \A y \in rows : x.id <= y.id
       IN <<m>> \o RowSeq(rows \ {m})

\* RoleMappingRepository.get_all: SELECT with the optional application filter.
get_all(rows, application_id) ==
  IF application_id # None
  THEN {x \in rows : x.application_id = application_id}
  ELSE rows

\* One iteration of the loop of get_all_as_opa_data.
AddMappingFlat(doc, mapping) ==
  LET app_id == mapping.application_id
      env == mapping.environment
      d1 == IF app_id \notin DOMAIN doc THEN DictPut(doc, app_id, EmptyDict) ELSE doc
  IN DictPut(d1, app_id, DictPut(EmptyDict, env, DictPut(EmptyDict, mapping.ad_group, mapping.role)))
AddMapping(doc, mapping) ==
  LET app_id == mapping.application_id
      env == mapping.environment
      d1 == IF app_id \notin DOMAIN doc THEN DictPut(doc, app_id, EmptyDict) ELSE doc
      d2 == IF env \notin DOMAIN d1[app_id]
            THEN DictPut(d1, app_id, DictPut(d1[app_id], env, EmptyDict))
            ELSE d1
  IN DictPut(d2, app_id,
             DictPut(d2[app_id], env,
                     DictPut(d2[app_id][env], mapping.ad_group, mapping.role)))

RECURSIVE FoldMappings(_, _)
FoldMappings(doc, mappings) ==
  IF mappings = <<>> THEN doc
  ELSE FoldMappings(AddMapping(doc, Head(mappings)), Tail(mappings))

\* RoleMappingRepository.get_all_as_opa_data on the table contents `rows`.
get_all_as_opa_data(rows) ==
  [role_mappings |-> FoldMappings(EmptyDict, RowSeq(get_all(rows, None)))]

\* ------------------------------------------------------------------ errors
\* The messages the repository, the service and the OPA client raise with.
MsgCreateExists == "Role mapping already exists for application"
MsgCreateFailed == "Failed to create role mapping"
MsgUpdateConflict == "Role mapping conflict: combination already exists"
MsgUpdateFailed == "Failed to update role mapping"
MsgGetByIdFailed == "Failed to retrieve role mapping"
MsgGetAllFailed == "Failed to retrieve role mappings"
MsgDeleteFailed == "Failed to delete role mapping"
MsgNotFound == "Role mapping with id not found"
MsgPushStatus == "Failed to push data to OPA path"
MsgPushConnect == "Failed to connect to OPA for data push"
MsgPushUnexpected == "Unexpected error during data push"
MsgUploadStatus == "Failed to upload policy to OPA"
MsgUploadConnect == "Failed to connect to OPA for policy upload"
MsgUploadUnexpected == "Unexpected error during policy upload"
MsgBaseStatus == "Failed to upload base policy to OPA"
MsgBaseNotFound == "Base policy file not found"
MsgEvalStatus == "Failed to evaluate permissions"
MsgEvalConnect == "Failed to connect to OPA for evaluation"
MsgEvalUnexpected == "Unexpected error during permission evaluation"
MsgCustomStatus == "Failed to evaluate custom policy"
MsgCustomConnect == "Failed to connect to OPA for custom policy evaluation"
MsgCustomUnexpected == "Unexpected error during custom policy evaluation"
MsgNone == "none"

\* "already exists" in str(e.message).lower() or "unique constraint" in ...
IsConflictMessageCreateOnly(msg) == msg = MsgCreateExists
IsConflictMessage(msg) == msg \in {MsgCreateExists, MsgUpdateConflict}

\* ------------------------------------------------------------------ engine
\* The answers of the engine to a PUT on the data API: a status code, or no
\* answer at all (httpx.RequestError: connection refused, timeout).
PutAnswers == {"200", "204", "500", "RequestError"}

\* OPAService.push_policy_data: True on 200/204, OPAConnectionError otherwise.
push_accepts_any(answer) == answer # "RequestError"
push_policy_data(answer) == answer \in {"200", "204"}

\* The failures of a request in transport (subclasses of httpx.RequestError).
TransportErrors == {"ConnectError", "ReadTimeout"}

IsTransportError(answer) == answer \in TransportErrors \cup {"RequestError"}

\* The message of the exception that leaves push_policy_data.  The
\* OPAConnectionError raised for a refusing status is raised inside the try
\* block, so "except Exception" catches it and raises the "unexpected" one.
PushErrorMessage(answer) ==
  IF IsTransportError(answer) THEN MsgPushConnect ELSE MsgPushUnexpected

\* PUT /v1/data/<path>: the engine replaces the document at the path when it
\* answers with success and leaves it alone otherwise.
EnginePatch(data, data_path, doc, answer) ==
  IF answer \in {"200", "204"}
  THEN [p \in (DOMAIN data) \cup {data_path} |->
          IF p # data_path THEN data[p]
          ELSE IF p \notin DOMAIN data THEN doc
          ELSE [k \in (DOMAIN data[p]) \cup (DOMAIN doc) |->
                  IF k \in DOMAIN doc THEN doc[k] ELSE data[p][k]]]
  ELSE data
EnginePut(data, data_path, doc, answer) ==
  IF answer \in {"200", "204"}
  THEN [p \in (DOMAIN data) \cup {data_path} |-> IF p = data_path THEN doc ELSE data[p]]
  ELSE data

\* ------------------------------------------------------------------ client
\* What a method of OPAService gives its caller: a value, or an exception with
\* its message and detail.  A detail is the sequence of the texts it is made of.
Returned(value) == [ret |-> value, exc |-> "none", msg |-> MsgNone, detail |-> <<>>]

Raised(exc, msg, detail) == [ret |-> "raised", exc |-> exc, msg |-> msg, detail |-> detail]

\* detail=f"Status {response.status_code}: {error_detail}"
StatusDetail(answer, body) == <<"Status", answer, body>>

\* "except Exception as e: raise OPAConnectionError(<message>, detail=str(e))";
\* str(e) of an OPAPermissionAPIException is its message.
ExceptException(e, msg) == Raised("OPAConnectionError", msg, <<e.msg>>)

\* The common shape of the methods that make one request: a value for a
\* status of success; for any other status an OPAConnectionError raised inside
\* the try block and caught by its "except Exception"; for a transport failure
\* and for any other exception an OPAConnectionError with str(e) as detail.
OneRequest(success, value, statusMsg, connectMsg, unexpectedMsg, answer, body) ==
  IF success THEN Returned(value)
  ELSE IF IsTransportError(answer) THEN Raised("OPAConnectionError", connectMsg, <<answer>>)
  ELSE IF answer = "Exception"
  THEN ExceptException([msg |-> "Exception"], unexpectedMsg)
  ELSE ExceptException(Raised("OPAConnectionError", statusMsg, StatusDetail(answer, body)),
                       unexpectedMsg)

\* OPAService.push_policy_data as its caller sees it.
push_policy_data_call(answer, body) ==
  OneRequest(push_policy_data(answer), "True",
             MsgPushStatus, MsgPushConnect, MsgPushUnexpected, answer, body)

upload_policy(answer, body) ==
  OneRequest(answer \in {"200", "201"}, "True",
             MsgUploadStatus, MsgUploadConnect, MsgUploadUnexpected, answer, body)

\* open() fails with FileNotFoundError before any request is made.
upload_base_policy(answer, body) ==
  IF answer = "FileNotFoundError"
  THEN Raised("OPAConnectionError", MsgBaseNotFound, <<answer>>)
  ELSE OneRequest(answer \in {"200", "201"}, "True",
                  MsgBaseStatus, MsgUploadConnect, MsgUploadUnexpected, answer, body)

evaluate_permissions_any_status(answer, body) ==
  OneRequest(~IsTransportError(answer) /\ answer # "Exception", "decision",
             MsgEvalStatus, MsgEvalConnect, MsgEvalUnexpected, answer, body)
evaluate_permissions(answer, body) ==
  OneRequest(answer = "200", "decision",
             MsgEvalStatus, MsgEvalConnect, MsgEvalUnexpected, answer, body)

evaluate_custom_policy(answer, body) ==
  OneRequest(answer = "200", "decision",
             MsgCustomStatus, MsgCustomConnect, MsgCustomUnexpected, answer, body)

\* ------------------------------------------------------------------ state
VARIABLES
  store,      \* the rows of table role_mappings
  nextId,     \* the next value of the autoincrement primary key
  engine,     \* the engine's data documents, by data path
  req,        \* per request slot: the handler's position and locals
  life,       \* the lifespan start-up coroutine: position and locals
  ops,        \* number of requests and process restarts so far
  lastSync,   \* the last resync whose push the engine accepted: whether there
              \* was one, and whether the table is as that resync read it
  hist,       \* the contents the table has had, one per committed state
  call,       \* one call of an OPAService method: its arguments, the engine's
              \* answer and what the method gave its caller
  apps,       \* the ids of the rows of table applications
  handler,    \* the handler of a request that is not a role-mapping mutation:
              \* its position and locals
  policies    \* custom policies: the keys of the files in the S3 bucket, the
              \* ids of the rows of table custom_policies and the ids of the
              \* modules the engine holds

vars == <<store, nextId, engine, req, life, ops, lastSync, hist, call, apps, handler, policies>>

IdleReq ==
  [pc |-> "idle",        \* the handler's position
   op |-> "none",        \* create, update or delete
   mapping_id |-> 0,     \* the path parameter of an update or a delete
   loaded |-> NoRow,     \* the row object of the handler's session
   data |-> NoRow,       \* the body of an update whose commit went through
   seen |-> {},          \* the row objects sync_to_opa's query returned
   doc |-> EmptyDict,    \* the document sync_to_opa built from them
   path |-> None,        \* the data path of the PUT
   answer |-> None,      \* the engine's answer to the PUT
   pushes |-> 0,         \* PUT requests sent
   writeOk |-> FALSE,    \* the repository's write returned normally
   committed |-> FALSE,  \* a change of the table was committed
   dup |-> FALSE,        \* the write would have repeated a triple of another row
   fault |-> FALSE,      \* a statement failed for a reason other than the index
   exc |-> "none",       \* the exception that left the service
   msg |-> MsgNone,      \* its message
   ret |-> "none",       \* what the service returned
   alone |-> FALSE,      \* no other request was under way at any time
   late |-> FALSE,       \* the request arrived while a committed write was
                         \* waiting for its push, which had failed
   stale |-> FALSE]      \* the table changed after doc was read

IdleLife ==
  [pc |-> "serving", attempt |-> 0, probes |-> 0, delays |-> <<>>,
   healthy |-> "none", uploaded |-> "none", seen |-> {}, doc |-> EmptyDict,
   opa_data |-> EmptyDict, pushes |-> 0, synced |-> "none",
   outcomes |-> <<>>,    \* how each GET /health of health_check ended
   exc |-> "none",       \* the exception health_check raised
   detail |-> None]      \* its detail: the text of the transport error

StartLife == [IdleLife EXCEPT !.pc = "health"]

\* valid: some push was accepted; fresh: the table is as the last accepted
\* resync read it; again: that resync followed an accepted one with the table
\* unchanged in between; unsynced: a committed write is waiting for its push,
\* which failed; healed: the last accepted resync ended such a wait.
NoSync ==
  [valid |-> FALSE, fresh |-> FALSE, again |-> FALSE, unsynced |-> FALSE,
   healed |-> FALSE]

Accepted(last, stale) ==
  [valid |-> TRUE, fresh |-> ~stale, again |-> last.valid /\ last.fresh /\ ~stale,
   unsynced |-> FALSE, healed |-> last.unsynced]

\* No call of an OPAService method is under way.
NoCall ==
  [pc |-> "none", method |-> "none", path |-> None, answer |-> None, body |-> None,
   ret |-> "none", exc |-> "none", msg |-> MsgNone, detail |-> <<>>]

\* No such handler is under way.
NoHandler == [pc |-> "none"]

\* No custom policy is stored anywhere.
NoPolicies == [s3 |-> {}, db |-> {}, opa |-> {}]

\* The table as the process finds it when it starts: empty, or holding the
\* mapping of an earlier run.
InitialStores ==
  { {}, {RoleMapping(1, "app-a", "DEV", "grp-admin", "admin")} }

Init ==
  /\ store \in InitialStores
  /\ nextId = Cardinality(store) + 1
  /\ engine = [p \in {"role_mappings"} |-> EmptyDict]
  /\ req = [r \in Reqs |-> IdleReq]
  /\ life = StartLife
  /\ ops = 0
  /\ lastSync = NoSync
  /\ hist = {store}
  /\ call = NoCall
  /\ apps = Apps
  /\ handler = NoHandler
  /\ policies = NoPolicies

InFlight(x) == x.pc \notin {"idle", "done"}

\* A commit that changed the table: every projection read before it is now
\* stale, and so is the last accepted resync.
AfterCommit(rq) ==
  [x \in Reqs |-> IF rq[x].pc = "sync_push" THEN [rq[x] EXCEPT !.stale = TRUE] ELSE rq[x]]

\* A handler that starts while others are under way overlaps them.
AfterBegin(rq, r, new) ==
  [x \in Reqs |->
     IF x = r THEN [new EXCEPT !.alone = \A y \in Reqs \ {r} : ~InFlight(rq[y]),
                               !.late = lastSync.unsynced]
     ELSE IF rq[x].pc # "idle" THEN [rq[x] EXCEPT !.alone = FALSE]
     ELSE rq[x]]

\* ------------------------------------------------------------------ requests
Serving == life.pc = "serving"

\* An exception leaves the service ("except ...: logger.error(...); raise").
RaiseLoggedOnly(x, exc, msg) ==
  IF x.pc \in {"create_write", "update_write", "delete_write"}
  THEN [x EXCEPT !.pc = "sync_read", !.exc = exc, !.msg = msg]
  ELSE [x EXCEPT !.pc = "done", !.exc = exc, !.msg = msg, !.ret = "raised"]
Raise(x, exc, msg) == [x EXCEPT !.pc = "done", !.exc = exc, !.msg = msg, !.ret = "raised"]

\* A request is taken by the lowest free slot.  The body and the path
\* parameter of a request are fixed on arrival; the model draws each of them in
\* the step where the handler first reads it.
CanBegin(r) ==
  /\ Serving /\ req[r].pc = "idle" /\ ops < MaxOps
  /\ \A q \in Reqs : q < r => req[q].pc # "idle"

\* POST /role-mappings: the router builds the service and calls
\* create_role_mapping with the validated body.
BeginCreate(r) ==
  /\ CanBegin(r)
  /\ req' = AfterBegin(req, r, [IdleReq EXCEPT !.pc = "create_write", !.op = "create"])
  /\ ops' = ops + 1
  /\ UNCHANGED <<store, nextId, engine, life, lastSync, hist, call, apps, handler, policies>>

\* PUT /role-mappings/{mapping_id}: every field of the body is optional.
BeginUpdate(r) ==
  /\ CanBegin(r)
  /\ req' = AfterBegin(req, r, [IdleReq EXCEPT !.pc = "update_load", !.op = "update"])
  /\ ops' = ops + 1
  /\ UNCHANGED <<store, nextId, engine, life, lastSync, hist, call, apps, handler, policies>>

\* DELETE /role-mappings/{mapping_id}.
BeginDelete(r) ==
  /\ CanBegin(r)
  /\ req' = AfterBegin(req, r, [IdleReq EXCEPT !.pc = "delete_load", !.op = "delete"])
  /\ ops' = ops + 1
  /\ UNCHANGED <<store, nextId, engine, life, lastSync, hist, call, apps, handler, policies>>

\* ForeignKey("applications.id"): the row's application exists.
ForeignKeyOk(row, applications) == row.application_id \in applications

\* RoleMappingRepository.create: add, commit, refresh.  The INSERT is refused
\* with IntegrityError when the unique index is violated; any other
\* SQLAlchemyError (write fault) fails the commit; the refresh that follows a
\* commit is a statement of its own and can fail after the row is stored.
CreateWrite(r) ==
  /\ req[r].pc = "create_write"
  /\ \E a \in Apps, e \in Envs, g \in Groups, ro \in Roles :
     LET row == RoleMapping(nextId, a, e, g, ro)
         dup == \E y \in store : Triple(y) = Triple(row)
         refused == ~UniqueOk(store \cup {row}) \/ ~ForeignKeyOk(row, apps)
         x == [req[r] EXCEPT !.dup = dup]
     IN \/ \* SQLAlchemyError before the commit
           /\ req' = [req EXCEPT ![r] = Raise([x EXCEPT !.fault = TRUE], "DatabaseError", MsgCreateFailed)]
           /\ UNCHANGED <<store, nextId, lastSync, hist>>
        \/ \* IntegrityError: rollback
           /\ refused
           /\ req' = [req EXCEPT ![r] = Raise(x, "DatabaseError", MsgCreateExists)]
           /\ UNCHANGED <<store, nextId, lastSync, hist>>
        \/ \* committed
           /\ ~refused
           /\ store' = store \cup {row}
           /\ hist' = hist \cup {store'}
           /\ nextId' = nextId + 1
           /\ lastSync' = [lastSync EXCEPT !.fresh = FALSE]
           /\ \/ req' = [AfterCommit(req) EXCEPT ![r] =
                           [x EXCEPT !.pc = "sync_read", !.committed = TRUE,
                                     !.writeOk = TRUE, !.loaded = row]]
              \/ \* refresh fails after the commit
                 req' = [AfterCommit(req) EXCEPT ![r] =
                           Raise([x EXCEPT !.committed = TRUE, !.fault = TRUE],
                                 "DatabaseError", MsgCreateFailed)]
  /\ UNCHANGED <<engine, life, ops, call, apps, handler, policies>>

\* RoleMappingRepository.get_by_id: "query(RoleMapping).filter(RoleMapping.id ==
\* mapping_id).first()", as the set of rows it can return.
get_by_id_unfiltered(rows, mapping_id) == rows
get_by_id(rows, mapping_id) == {x \in rows : x.id = mapping_id}

\* update_role_mapping, first part: repository.get_by_id.
UpdateLoad(r) ==
  /\ req[r].pc = "update_load"
  /\ \E mapping_id \in 1..nextId :
     LET found == get_by_id(store, mapping_id)
         x == [req[r] EXCEPT !.mapping_id = mapping_id]
     IN \/ req' = [req EXCEPT ![r] = Raise([x EXCEPT !.fault = TRUE], "DatabaseError", MsgGetByIdFailed)]
        \/ /\ found = {}
           /\ req' = [req EXCEPT ![r] = Raise(x, "ValidationError", MsgNotFound)]
        \/ /\ found # {}
           /\ req' = [req EXCEPT ![r] = [x EXCEPT !.pc = "update_write",
                                                  !.loaded = CHOOSE y \in found : TRUE]]
  /\ UNCHANGED <<store, nextId, engine, life, ops, lastSync, hist, call, apps, handler, policies>>

\* The columns the flush writes: the attributes assigned a value other than the
\* loaded one ("if mapping_data.<field> is not None: role_mapping.<field> = ...").
Assigned(loaded, data) ==
  [environment |-> IF data.environment # None THEN data.environment ELSE loaded.environment,
   ad_group |-> IF data.ad_group # None THEN data.ad_group ELSE loaded.ad_group,
   role |-> IF data.role # None THEN data.role ELSE loaded.role]

DirtyColumns(loaded, data) ==
  {c \in {"environment", "ad_group", "role"} : Assigned(loaded, data)[c] # loaded[c]}

\* UPDATE role_mappings SET <dirty columns> WHERE id = <loaded id>, applied to
\* the row as it is in the table now.
UpdatedRow(current, loaded, data) ==
  LET a == Assigned(loaded, data)
      dirty == DirtyColumns(loaded, data)
  IN [current EXCEPT
        !.environment = IF "environment" \in dirty THEN a.environment ELSE @,
        !.ad_group = IF "ad_group" \in dirty THEN a.ad_group ELSE @,
        !.role = IF "role" \in dirty THEN a.role ELSE @]

\* update_role_mapping, second part: the assignments and repository.update
\* (commit, refresh).
UpdateWrite(r) ==
  /\ req[r].pc = "update_write"
  /\ \E e \in Envs \cup {None}, g \in Groups \cup {None}, ro \in Roles \cup {None} :
     LET loaded == req[r].loaded
         data == RoleMapping(loaded.id, None, e, g, ro)
         found == {x \in store : x.id = loaded.id}
         current == CHOOSE x \in found : TRUE
         new == UpdatedRow(current, loaded, data)
         rows == (store \ {current}) \cup {new}
         dup == found # {} /\ \E y \in store \ {current} : Triple(y) = Triple(new)
         refused == found # {} /\ ~UniqueOk(rows)
         x == [req[r] EXCEPT !.dup = dup]
     IN \/ \* SQLAlchemyError before the commit
           /\ req' = [req EXCEPT ![r] = Raise([x EXCEPT !.fault = TRUE], "DatabaseError", MsgUpdateFailed)]
           /\ UNCHANGED <<store, lastSync, hist>>
        \/ \* the row is gone: StaleDataError on the UPDATE, or the refresh
           \* finds nothing to load
           /\ found = {}
           /\ req' = [req EXCEPT ![r] = Raise([x EXCEPT !.fault = TRUE], "DatabaseError", MsgUpdateFailed)]
           /\ UNCHANGED <<store, lastSync, hist>>
        \/ \* IntegrityError: rollback
           /\ refused
           /\ req' = [req EXCEPT ![r] = Raise(x, "DatabaseError", MsgUpdateConflict)]
           /\ UNCHANGED <<store, lastSync, hist>>
        \/ \* committed (nothing is written when no column is dirty)
           /\ found # {} /\ ~refused
           /\ store' = rows
           /\ hist' = hist \cup {rows}
           /\ lastSync' = IF rows # store THEN [lastSync EXCEPT !.fresh = FALSE] ELSE lastSync
           /\ LET rq == IF rows # store THEN AfterCommit(req) ELSE req
              IN \/ req' = [rq EXCEPT ![r] =
                              [x EXCEPT !.pc = "sync_read", !.committed = (rows # store),
                                        !.writeOk = TRUE, !.loaded = new, !.data = data]]
                 \/ \* refresh fails after the commit
                    req' = [rq EXCEPT ![r] =
                              Raise([x EXCEPT !.committed = (rows # store), !.fault = TRUE],
                                    "DatabaseError", MsgUpdateFailed)]
  /\ UNCHANGED <<nextId, engine, life, ops, call, apps, handler, policies>>

\* RoleMappingRepository.delete, first part: get_by_id; "if not role_mapping:
\* return False", which the service returns without a resync.
DeleteLoad(r) ==
  /\ req[r].pc = "delete_load"
  /\ \E mapping_id \in 1..nextId :
     LET found == get_by_id(store, mapping_id)
         x == [req[r] EXCEPT !.mapping_id = mapping_id]
     IN \/ req' = [req EXCEPT ![r] = Raise([x EXCEPT !.fault = TRUE], "DatabaseError", MsgGetByIdFailed)]
        \/ /\ found = {}
           /\ req' = [req EXCEPT ![r] = [x EXCEPT !.pc = "done", !.ret = "False"]]
        \/ /\ found # {}
           /\ req' = [req EXCEPT ![r] = [x EXCEPT !.pc = "delete_write",
                                                  !.loaded = CHOOSE y \in found : TRUE]]
  /\ UNCHANGED <<store, nextId, engine, life, ops, lastSync, hist, call, apps, handler, policies>>

\* RoleMappingRepository.delete, second part: DELETE ... WHERE id, commit.
DeleteWrite(r) ==
  /\ req[r].pc = "delete_write"
  /\ LET rows == {x \in store : x.id # req[r].loaded.id}
     IN \/ /\ req' = [req EXCEPT ![r] = Raise([@ EXCEPT !.fault = TRUE], "DatabaseError", MsgDeleteFailed)]
           /\ UNCHANGED <<store, lastSync, hist>>
        \/ /\ store' = rows
           /\ hist' = hist \cup {rows}
           /\ lastSync' = IF rows # store THEN [lastSync EXCEPT !.fresh = FALSE] ELSE lastSync
           /\ req' = [(IF rows # store THEN AfterCommit(req) ELSE req) EXCEPT ![r] =
                        [@ EXCEPT !.pc = "sync_read", !.committed = (rows # store),
                                  !.writeOk = TRUE, !.ret = "True"]]
  /\ UNCHANGED <<nextId, engine, life, ops, call, apps, handler, policies>>

\* ------------------------------------------------------------------ resync
\* The document sync_to_opa pushes: opa_data["role_mappings"] of
\* repository.get_all_as_opa_data(), whatever row the handler touched.
SyncDocumentTouchedApp(rows, touched) ==
  FoldMappings(EmptyDict, RowSeq(get_all(rows, touched.application_id)))
SyncDocumentWrapped(rows, touched) == get_all_as_opa_data(rows)
SyncDocumentBeforeWrite(rows, touched) == get_all_as_opa_data(rows \ {touched}).role_mappings
SyncDocument(rows, touched) == get_all_as_opa_data(rows).role_mappings

\* The data path sync_to_opa pushes to.
SyncPath == "role_mappings"

\* The row object the handler's session holds when sync_to_opa runs: the one
\* create or update refreshed after the commit, which the service keeps for its
\* response; a deleted object has left the session.
Cached(x) == IF x.op \in {"create", "update"} /\ x.writeOk THEN x.loaded ELSE NoRow

\* The rows a statement of a session sees: those committed when it runs (read
\* committed, the least isolation the store is required to give; the engine
\* and session factory of app/database.py are not part of the sources read).
CommittedRows(rows) == rows

\* "query.all()" in the handler's session: one SELECT; for a row whose object
\* the session already holds loaded, the query returns that object with the
\* attributes it has (a query does not overwrite the loaded attributes of an
\* object of the identity map).
QueryAllFresh(rows, cached) == rows
QueryAll(rows, cached) == {IF y.id = cached.id THEN cached ELSE y : y \in rows}

\* sync_to_opa, first part: get_all_as_opa_data (one SELECT).
SyncRead(r) ==
  /\ req[r].pc = "sync_read"
  /\ \/ req' = [req EXCEPT ![r] = Raise([@ EXCEPT !.fault = TRUE], "DatabaseError", MsgGetAllFailed)]
     \/ LET mappings == QueryAll(CommittedRows(store), Cached(req[r]))
        IN req' = [req EXCEPT ![r] = [@ EXCEPT !.pc = "sync_push", !.stale = FALSE,
                                               !.seen = mappings,
                                               !.doc = SyncDocument(mappings, req[r].loaded)]]
  /\ UNCHANGED <<store, nextId, engine, life, ops, lastSync, hist, call, apps, handler, policies>>

\* sync_to_opa, second part: push_policy_data (one PUT), then the handler's
\* return or the propagated OPAConnectionError.
SyncPush(r) ==
  /\ req[r].pc = "sync_push"
  /\ \E answer \in PutAnswers :
       LET x == [req[r] EXCEPT !.pushes = @ + 1, !.path = SyncPath, !.answer = answer]
       IN /\ engine' = EnginePut(engine, SyncPath, req[r].doc, answer)
          /\ IF push_policy_data(answer)
             THEN /\ req' = [req EXCEPT ![r] =
                               [x EXCEPT !.pc = "done",
                                         !.ret = IF x.op = "delete" THEN "True" ELSE "returned"]]
                  /\ lastSync' = Accepted(lastSync, req[r].stale)
             ELSE /\ req' = [req EXCEPT ![r] = Raise(x, "OPAConnectionError", PushErrorMessage(answer))]
                  /\ lastSync' = [lastSync EXCEPT !.unsynced = @ \/ req[r].committed]
  /\ UNCHANGED <<store, nextId, life, ops, hist, call, apps, handler, policies>>

\* The status code the router answers with (its except clauses, in order).
HttpStatus(x) ==
  CASE x.exc = "ValidationError" -> 404
    [] x.exc = "DatabaseError" /\ x.op # "delete" /\ IsConflictMessage(x.msg) -> 409
    [] x.exc = "DatabaseError" -> 500
    [] x.exc = "OPAConnectionError" -> 503
    [] x.ret = "False" -> 404
    [] x.op = "create" -> 201
    [] x.op = "update" -> 200
    [] OTHER -> 204

\* The response is sent; the slot takes the next request.
Finish(r) ==
  /\ req[r].pc = "done"
  /\ req' = [req EXCEPT ![r] = IdleReq]
  /\ UNCHANGED <<store, nextId, engine, life, ops, lastSync, hist, call, apps, handler, policies>>

\* ------------------------------------------------------------------ start-up
max_retries == 3
base_delay == 1

\* How a GET /health can end: the engine answers with a status, or the request
\* fails in transport.
HealthOutcomes == {"200", "503"} \cup TransportErrors

\* "delay = base_delay * (2**attempt)".
BackoffConstant(attempt) == base_delay
BackoffDelay(attempt) == base_delay * (2 ^ attempt)

\* The exception health_check raises when its last attempt fails in transport.
MsgUnreachable == "OPA server is unreachable"
HealthCheckError == "OPAConnectionError"

\* "if response.status_code == 200": the probe found the engine healthy.
ProbeOkAnyStatus(outcome) == outcome \notin TransportErrors
ProbeOk(outcome) == outcome = "200"

\* One iteration of the loop of OPAService.health_check, called by lifespan
\* (which ignores the value it returns).
HealthProbe ==
  /\ life.pc = "health"
  /\ \E outcome \in HealthOutcomes :
       LET a == life.attempt
           x == [life EXCEPT !.probes = @ + 1, !.outcomes = Append(@, outcome)]
       IN life' =
            IF ProbeOk(outcome)
            THEN [x EXCEPT !.healthy = "True", !.pc = "upload"]
            ELSE IF outcome \notin TransportErrors
            THEN IF a + 1 < max_retries
                 THEN [x EXCEPT !.attempt = a + 1]
                 ELSE [x EXCEPT !.healthy = "False", !.pc = "upload"]
            ELSE IF a < max_retries - 1
                 THEN [x EXCEPT !.attempt = a + 1,
                                !.delays = Append(@, BackoffDelay(a))]
                 ELSE [x EXCEPT !.healthy = "raised", !.pc = "ready",
                                !.exc = HealthCheckError, !.detail = outcome]
  /\ UNCHANGED <<store, nextId, engine, req, ops, lastSync, hist, call, apps, handler, policies>>

\* OPAService.upload_base_policy: True on 200/201, OPAConnectionError otherwise.
UploadBasePolicy ==
  /\ life.pc = "upload"
  /\ \E outcome \in {"200", "201", "500", "RequestError", "FileNotFoundError"} :
       life' = IF upload_base_policy(outcome, None).exc = "none"
               THEN [life EXCEPT !.uploaded = "True", !.pc = "sync_read"]
               ELSE [life EXCEPT !.uploaded = "raised", !.pc = "ready"]
  /\ UNCHANGED <<store, nextId, engine, req, ops, lastSync, hist, call, apps, handler, policies>>

\* "except Exception as e: logger.warning(...)" around lifespan's sync_to_opa:
\* the failure is logged and lifespan goes on.
SyncFailedAborts(x) == [x EXCEPT !.synced = "failed", !.pc = "aborted"]
SyncFailedLogged(x) == [x EXCEPT !.synced = "failed", !.pc = "ready"]

\* lifespan's sync_to_opa, first part.
StartupSyncRead ==
  /\ life.pc = "sync_read"
  /\ \/ life' = SyncFailedLogged(life)
     \/ life' = [life EXCEPT !.seen = store, !.doc = SyncDocument(store, NoRow),
                             !.pc = "sync_push"]
  /\ UNCHANGED <<store, nextId, engine, req, ops, lastSync, hist, call, apps, handler, policies>>

\* lifespan's sync_to_opa, second part.
StartupSyncPush ==
  /\ life.pc = "sync_push"
  /\ \E answer \in PutAnswers :
       /\ engine' = EnginePut(engine, SyncPath, life.doc, answer)
       /\ life' = IF push_policy_data(answer)
                  THEN [life EXCEPT !.pushes = @ + 1, !.pc = "ready", !.synced = "True"]
                  ELSE SyncFailedLogged([life EXCEPT !.pushes = @ + 1])
       /\ lastSync' = IF push_policy_data(answer)
                      THEN Accepted(lastSync, FALSE)
                      ELSE lastSync
  /\ UNCHANGED <<store, nextId, req, ops, hist, call, apps, handler, policies>>

\* "yield": the application serves requests.
Yield ==
  /\ life.pc = "ready"
  /\ life' = IdleLife
  /\ UNCHANGED <<store, nextId, engine, req, ops, lastSync, hist, call, apps, handler, policies>>

\* The process is stopped and started again; the database and the engine keep
\* their contents.
Restart ==
  /\ Serving
  /\ \A r \in Reqs : req[r].pc = "idle"
  /\ ops < MaxOps
  /\ life' = StartLife
  /\ ops' = ops + 1
  /\ UNCHANGED <<store, nextId, engine, req, lastSync, hist, call, apps, handler, policies>>

\* ------------------------------------------------------------------ behaviours
Next ==
  \/ HealthProbe
  \/ UploadBasePolicy
  \/ StartupSyncRead
  \/ StartupSyncPush
  \/ Yield
  \/ Restart
  \/ \E r \in Reqs : BeginCreate(r)
  \/ \E r \in Reqs : BeginUpdate(r)
  \/ \E r \in Reqs : BeginDelete(r)
  \/ \E r \in Reqs : CreateWrite(r)
  \/ \E r \in Reqs : UpdateLoad(r)
  \/ \E r \in Reqs : UpdateWrite(r)
  \/ \E r \in Reqs : DeleteLoad(r)
  \/ \E r \in Reqs : DeleteWrite(r)
  \/ \E r \in Reqs : SyncRead(r)
  \/ \E r \in Reqs : SyncPush(r)
  \/ \E r \in Reqs : Finish(r)

Spec == Init /\ [][Next]_vars

\* ------------------------------------------------------------------ a third write
\* A run of Spec continued past its second request.  The process started on an
\* empty table and its resync was accepted; a create stored row 1 and its push
\* failed; then an update, which arrived in slot 1 after that, changed the role
\* of row 1, committed, refreshed its row object and is about to resync.  ops
\* counts the requests and restarts that follow.
MixRow == RoleMapping(1, "app-a", "DEV", "grp-admin", "admin")
MixUpdated == [MixRow EXCEPT !.role = "user"]

MixRequest ==
  [IdleReq EXCEPT !.pc = "sync_read", !.op = "update", !.loaded = MixUpdated,
                  !.writeOk = TRUE, !.committed = TRUE, !.alone = TRUE, !.late = TRUE,
                  !.mapping_id = 1, !.data = RoleMapping(1, None, None, None, "user")]

MixState ==
  /\ store = {MixUpdated}
  /\ nextId = 2
  /\ engine = [p \in {"role_mappings"} |-> EmptyDict]
  /\ req = [r \in Reqs |-> IF r = 1 THEN MixRequest ELSE IdleReq]
  /\ life = IdleLife
  /\ lastSync = [valid |-> TRUE, fresh |-> FALSE, again |-> FALSE, unsynced |-> TRUE,
                 healed |-> FALSE]
  /\ hist = {{}, {MixRow}, {MixUpdated}}
  /\ call = NoCall
  /\ apps = Apps
  /\ handler = NoHandler
  /\ policies = NoPolicies

InitMix == MixState /\ ops = 0

SpecMix == InitMix /\ [][Next]_vars

\* ------------------------------------------------------------------ projection
\* get_all_as_opa_data as a function of the table: the table is drawn from the
\* sets of at most MaxRows rows that satisfy the unique index.
MaxRows == 3

ProjGroups == Groups \cup {"grp-user"}

Absent == [application_id |-> None, environment |-> None, ad_group |-> None, role |-> None]

RowValues ==
  [application_id : Apps, environment : Envs, ad_group : ProjGroups, role : Roles]

TableOf(f) ==
  {RoleMapping(i, f[i].application_id, f[i].environment, f[i].ad_group, f[i].role) :
     i \in {j \in DOMAIN f : f[j] # Absent}}

InitProject ==
  /\ \E f \in [1..MaxRows -> RowValues \cup {Absent}] :
       /\ store = TableOf(f)
       /\ UniqueOk(store)
  /\ nextId = MaxRows + 1
  /\ engine = [p \in {"role_mappings"} |-> EmptyDict]
  /\ req = [r \in Reqs |-> IdleReq]
  /\ life = [IdleLife EXCEPT !.pc = "project"]
  /\ ops = 0
  /\ lastSync = NoSync
  /\ hist = {store}
  /\ call = NoCall
  /\ apps = Apps
  /\ handler = NoHandler
  /\ policies = NoPolicies

ProjectAll ==
  /\ life.pc = "project"
  /\ life' = [life EXCEPT !.pc = "projected", !.opa_data = get_all_as_opa_data(store)]
  /\ UNCHANGED <<store, nextId, engine, req, ops, lastSync, hist, call, apps, handler, policies>>

NextProject == ProjectAll

SpecProject == InitProject /\ [][NextProject]_vars

\* ------------------------------------------------------------------ client calls
\* The methods of OPAService that make one request, each called once with
\* every answer the engine can give: a status with a response body, a failure
\* in transport, or an exception of another kind inside the try block.
Statuses == {"200", "201", "204", "404", "500"}

Bodies == {"", "not found", "internal error"}

Answers == Statuses \cup TransportErrors \cup {"Exception"}

DataPaths == {"role_mappings", "custom"}

Documents == {EmptyDict, DictPut(EmptyDict, "app-a", DictPut(EmptyDict, "DEV", DictPut(EmptyDict, "grp-admin", "admin")))}

InitOpa ==
  /\ store = {}
  /\ nextId = 1
  /\ engine = [p \in {"role_mappings"} |-> EmptyDict]
  /\ req = [r \in Reqs |-> IdleReq]
  /\ life = IdleLife
  /\ ops = 0
  /\ lastSync = NoSync
  /\ hist = {store}
  /\ call = NoCall
  /\ apps = Apps
  /\ handler = NoHandler
  /\ policies = NoPolicies

\* The call returns or raises; body is the text of the response, if any.
Called(method, path, answer, body, result) ==
  [pc |-> "done", method |-> method, path |-> path, answer |-> answer,
   body |-> IF answer \in Statuses THEN body ELSE None,
   ret |-> result.ret, exc |-> result.exc, msg |-> result.msg, detail |-> result.detail]

CallPushPolicyData ==
  /\ call.pc = "none"
  /\ \E data_path \in DataPaths, data \in Documents, answer \in Answers, body \in Bodies :
       /\ call' = Called("push_policy_data", data_path, answer, body, push_policy_data_call(answer, body))
       /\ engine' = EnginePut(engine, data_path, data, answer)
  /\ UNCHANGED <<store, nextId, req, life, ops, lastSync, hist, apps, handler, policies>>

CallUploadPolicy ==
  /\ call.pc = "none"
  /\ \E answer \in Answers, body \in Bodies :
       call' = Called("upload_policy", None, answer, body, upload_policy(answer, body))
  /\ UNCHANGED <<store, nextId, engine, req, life, ops, lastSync, hist, apps, handler, policies>>

CallUploadBasePolicy ==
  /\ call.pc = "none"
  /\ \E answer \in Answers \cup {"FileNotFoundError"}, body \in Bodies :
       call' = Called("upload_base_policy", None, answer, body, upload_base_policy(answer, body))
  /\ UNCHANGED <<store, nextId, engine, req, life, ops, lastSync, hist, apps, handler, policies>>

CallEvaluatePermissions ==
  /\ call.pc = "none"
  /\ \E answer \in Answers, body \in Bodies :
       call' = Called("evaluate_permissions", None, answer, body, evaluate_permissions(answer, body))
  /\ UNCHANGED <<store, nextId, engine, req, life, ops, lastSync, hist, apps, handler, policies>>

CallEvaluateCustomPolicy ==
  /\ call.pc = "none"
  /\ \E answer \in Answers, body \in Bodies :
       call' = Called("evaluate_custom_policy", None, answer, body, evaluate_custom_policy(answer, body))
  /\ UNCHANGED <<store, nextId, engine, req, life, ops, lastSync, hist, apps, handler, policies>>

NextOpa ==
  \/ CallPushPolicyData
  \/ CallUploadPolicy
  \/ CallUploadBasePolicy
  \/ CallEvaluatePermissions
  \/ CallEvaluateCustomPolicy

SpecOpa == InitOpa /\ [][NextOpa]_vars

\* ------------------------------------------------------------------ start-up, scheduled
\* The server awaits lifespan before it serves, and every await of lifespan
\* ends: a request returns, fails, or times out (the client's timeout).
StartupStep ==
  \/ HealthProbe
  \/ UploadBasePolicy
  \/ StartupSyncRead
  \/ StartupSyncPush
  \/ Yield

SpecStartup == Init /\ [][Next]_vars /\ WF_vars(StartupStep)

\* ------------------------------------------------------------------ permissions
\* GET /permissions/{app_id}: evaluate_app_permission.  The body of the
\* engine's answer to POST /v1/data/permissions/permissions is a JSON object
\* that holds the decision under "result", a map from application ids to
\* roles, or holds no "result" when the rule is undefined.
EvalRoles == Roles \cup {"none"}

Decisions ==
  UNION {[known -> EvalRoles] : known \in SUBSET Apps}

EvalBodies == {[result |-> d] : d \in Decisions} \cup {EmptyDict}

\* "result.get('result', {})".
DecisionOf(body) == IF "result" \in DOMAIN body THEN body.result ELSE EmptyDict

\* "permissions.get(app_id, 'none')".
PermissionOrFirst(permissions, app_id) ==
  IF DOMAIN permissions = {} THEN "none"
  ELSE permissions[CHOOSE a \in DOMAIN permissions : TRUE]
PermissionFor(permissions, app_id) ==
  IF app_id \in DOMAIN permissions THEN permissions[app_id] ELSE "none"

\* The handler's locals: the path parameter, the application row it found,
\* the decision, and the response (a role with status 200, or an HTTPException).
StartEval(app_id) ==
  [pc |-> "get_application", op |-> "evaluate_app_permission", app_id |-> app_id,
   permissions |-> None, role |-> None, status |-> 0, exc |-> "none"]

InitEval ==
  /\ store = {}
  /\ nextId = 1
  /\ engine = [p \in {"role_mappings"} |-> EmptyDict]
  /\ req = [r \in Reqs |-> IdleReq]
  /\ life = IdleLife
  /\ ops = 0
  /\ lastSync = NoSync
  /\ hist = {store}
  /\ call = NoCall
  /\ apps \in SUBSET Apps
  /\ \E app_id \in Apps : handler = StartEval(app_id)
  /\ policies = NoPolicies

\* An HTTPException leaves the handler.
HttpError(x, exc, code) == [x EXCEPT !.pc = "done", !.exc = exc, !.status = code]

\* "application = app_service.get_application(app_id)": 404 when there is none,
\* 500 when the query fails.
EvalGetApplication ==
  /\ handler.pc = "get_application"
  /\ handler.op = "evaluate_app_permission"
  /\ \/ handler' = HttpError(handler, "DatabaseError", 500)
     \/ /\ handler.app_id \notin apps
        /\ handler' = HttpError(handler, "HTTPException", 404)
     \/ /\ handler.app_id \in apps
        /\ handler' = [handler EXCEPT !.pc = "evaluate"]
  /\ UNCHANGED <<store, nextId, engine, req, life, ops, lastSync, hist, call, apps, policies>>

\* "permissions = await opa_service.evaluate_permissions(...)" and the rest of
\* the handler: the role of the response, or 503 for OPAConnectionError.
EvalPermissions ==
  /\ handler.pc = "evaluate"
  /\ \E answer \in Answers, body \in EvalBodies :
       LET result == evaluate_permissions(answer, body)
           permissions == DecisionOf(body)
       IN /\ call' = Called("evaluate_permissions", None, answer, body, result)
          /\ handler' =
               IF result.exc = "none"
               THEN [handler EXCEPT !.pc = "done", !.permissions = permissions,
                                    !.role = PermissionFor(permissions, handler.app_id),
                                    !.status = 200]
               ELSE HttpError(handler, result.exc, 503)
  /\ UNCHANGED <<store, nextId, engine, req, life, ops, lastSync, hist, apps, policies>>

NextEval ==
  \/ EvalGetApplication
  \/ EvalPermissions

SpecEval == InitEval /\ [][NextEval]_vars

\* ------------------------------------------------------------------ health endpoints
\* OPAService.health_check as a function of the outcomes of its probes, in
\* order: what it returns or raises, and how many probes it sent.
RECURSIVE health_check_from(_, _)
health_check_from(outcomes, attempt) ==
  IF attempt >= max_retries
  THEN [ret |-> "False", exc |-> "none", probes |-> attempt]
  ELSE LET outcome == outcomes[attempt + 1]
       IN IF ProbeOk(outcome)
          THEN [ret |-> "True", exc |-> "none", probes |-> attempt + 1]
          ELSE IF outcome \in TransportErrors /\ ~(attempt < max_retries - 1)
          THEN [ret |-> "raised", exc |-> HealthCheckError, probes |-> attempt + 1]
          ELSE health_check_from(outcomes, attempt + 1)

health_check(outcomes) == health_check_from(outcomes, 0)

\* The two handlers of routers/health.py that probe the engine.
HealthEndpoints == {"health_check_opa", "health_check"}

\* The handler's locals: the state it reports for each component it checked
\* ("none" for one it has not checked), what health_check gave it, and the
\* status code of the response.
StartHealth(op) ==
  [pc |-> IF op = "health_check" THEN "database" ELSE "opa", op |-> op,
   database |-> "none", opa |-> "none", s3 |-> "none",
   outcomes |-> <<>>, returned |-> "none", status |-> 0]

InitHealth ==
  /\ store = {}
  /\ nextId = 1
  /\ engine = [p \in {"role_mappings"} |-> EmptyDict]
  /\ req = [r \in Reqs |-> IdleReq]
  /\ life = IdleLife
  /\ ops = 0
  /\ lastSync = NoSync
  /\ hist = {store}
  /\ call = NoCall
  /\ apps = Apps
  /\ \E op \in HealthEndpoints : handler = StartHealth(op)
  /\ policies = NoPolicies

\* "healthy" unless the check raised.
ComponentState(ok) == IF ok THEN "healthy" ELSE "unhealthy"

\* GET /health: "db.execute(text('SELECT 1'))".
HealthDatabase ==
  /\ handler.pc = "database"
  /\ \E ok \in BOOLEAN :
       handler' = [handler EXCEPT !.database = ComponentState(ok), !.pc = "opa"]
  /\ UNCHANGED <<store, nextId, engine, req, life, ops, lastSync, hist, call, apps, policies>>

\* "await opa_service.health_check()" inside try: the component is unhealthy
\* when the call raises, healthy when it returns.
HealthOpa ==
  /\ handler.pc = "opa"
  /\ \E outcomes \in [1..max_retries -> HealthOutcomes] :
       LET result == health_check(outcomes)
       IN handler' = [handler EXCEPT
                        !.outcomes = SubSeq(outcomes, 1, result.probes),
                        !.returned = result.ret,
                        !.opa = ComponentState(result.exc = "none"),
                        !.pc = IF handler.op = "health_check" THEN "s3" ELSE "respond"]
  /\ UNCHANGED <<store, nextId, engine, req, life, ops, lastSync, hist, call, apps, policies>>

\* GET /health: "s3_service.s3_client.head_bucket(...)".
HealthS3 ==
  /\ handler.pc = "s3"
  /\ \E ok \in BOOLEAN :
       handler' = [handler EXCEPT !.s3 = ComponentState(ok), !.pc = "respond"]
  /\ UNCHANGED <<store, nextId, engine, req, life, ops, lastSync, hist, call, apps, policies>>

\* The response: 503 when a component is unhealthy, 200 otherwise.
HealthRespond ==
  /\ handler.pc = "respond"
  /\ handler.op \in HealthEndpoints
  /\ handler' = [handler EXCEPT
                   !.pc = "done",
                   !.status = IF "unhealthy" \in {handler.database, handler.opa, handler.s3}
                              THEN 503 ELSE 200]
  /\ UNCHANGED <<store, nextId, engine, req, life, ops, lastSync, hist, call, apps, policies>>

NextHealth ==
  \/ HealthDatabase
  \/ HealthOpa
  \/ HealthS3
  \/ HealthRespond

SpecHealth == InitHealth /\ [][NextHealth]_vars

\* ------------------------------------------------------------------ applications
\* DELETE /applications/{app_id}, next to the last request or restart of a
\* run of Spec in which two creates stored and pushed one mapping for each
\* application.
AppRows ==
  {RoleMapping(1, "app-a", "DEV", "grp-admin", "admin"),
   RoleMapping(2, "app-b", "DEV", "grp-admin", "user")}

StartAppDelete(app_id) ==
  [pc |-> "app_delete_load", op |-> "delete_application", app_id |-> app_id,
   status |-> 0, exc |-> "none"]

InitApp ==
  /\ store = AppRows
  /\ nextId = 3
  /\ engine = [p \in {"role_mappings"} |-> get_all_as_opa_data(AppRows).role_mappings]
  /\ req = [r \in Reqs |-> IdleReq]
  /\ life = IdleLife
  /\ ops = MaxOps - 1
  /\ lastSync = Accepted(NoSync, FALSE)
  /\ hist = {{}, {RoleMapping(1, "app-a", "DEV", "grp-admin", "admin")}, AppRows}
  /\ call = NoCall
  /\ apps = Apps
  /\ \E app_id \in Apps : handler = StartAppDelete(app_id)
  /\ policies = NoPolicies

\* The rows that remain when an application is deleted: the session deletes
\* the mappings of the relationship (cascade="all, delete-orphan") and the
\* foreign key is declared ondelete="CASCADE".
CascadeNone(rows, app_id) == rows
Cascade(rows, app_id) == {y \in rows : y.application_id # app_id}

\* ApplicationRepository.delete, first part: get_by_id; "if not application:
\* return False", which the router answers with 404.
AppDeleteLoad ==
  /\ handler.pc = "app_delete_load"
  /\ \/ handler' = HttpError(handler, "DatabaseError", 500)
     \/ /\ handler.app_id \notin apps
        /\ handler' = HttpError(handler, "HTTPException", 404)
     \/ /\ handler.app_id \in apps
        /\ handler' = [handler EXCEPT !.pc = "app_delete_write"]
  /\ UNCHANGED <<store, nextId, engine, req, life, ops, lastSync, hist, call, apps, policies>>

\* ApplicationRepository.delete, second part: delete, commit; then the
\* service and the router return (204).  No call of OPAService is made.
AppDeleteWrite ==
  /\ handler.pc = "app_delete_write"
  /\ \/ /\ handler' = HttpError(handler, "DatabaseError", 500)
        /\ UNCHANGED <<store, apps, req, lastSync, hist>>
     \/ LET rows == Cascade(store, handler.app_id)
        IN /\ apps' = apps \ {handler.app_id}
           /\ store' = rows
           /\ hist' = hist \cup {rows}
           /\ lastSync' = IF rows # store THEN [lastSync EXCEPT !.fresh = FALSE] ELSE lastSync
           /\ req' = IF rows # store THEN AfterCommit(req) ELSE req
           /\ handler' = [handler EXCEPT !.pc = "done", !.status = 204]
  /\ UNCHANGED <<nextId, engine, life, ops, call, policies>>

NextApp ==
  \/ Next
  \/ AppDeleteLoad
  \/ AppDeleteWrite

SpecApp == InitApp /\ [][NextApp]_vars

\* ------------------------------------------------------------------ custom policies
\* CustomPolicyService.upload_policy, called once with a policy id, against
\* the policies of earlier uploads.
PolicyIds == {"p1", "p2"}

\* temp_policy_id = f"temp_validation_{timestamp}"
TempPolicyId == "temp_validation"

\* s3_key = f"policies/{policy_id}/{version}.rego"; the version is the time of
\* the upload: "v1" for an earlier upload, "v2" for this one.
S3Key(policy_id, version) == <<"policies", policy_id, version>>

StartUpload(policy_id, before) ==
  [pc |-> "validate_put", op |-> "upload_policy", id |-> policy_id,
   stages |-> <<>>, validated |-> "none", stored |-> "none", uploaded |-> "none",
   exc |-> "none", ret |-> "none", before |-> before]

InitUpload ==
  /\ store = {}
  /\ nextId = 1
  /\ engine = [p \in {"role_mappings"} |-> EmptyDict]
  /\ req = [r \in Reqs |-> IdleReq]
  /\ life = IdleLife
  /\ ops = 0
  /\ lastSync = NoSync
  /\ hist = {{}}
  /\ call = NoCall
  /\ apps = Apps
  /\ \E db \in SUBSET PolicyIds, opa \in SUBSET PolicyIds :
       /\ opa \subseteq db
       /\ policies = [s3 |-> {S3Key(i, "v1") : i \in db}, db |-> db, opa |-> opa]
  /\ \E policy_id \in PolicyIds : handler = StartUpload(policy_id, policies)

\* An exception leaves upload_policy.
UploadRaise(x, exc) == [x EXCEPT !.pc = "done", !.exc = exc, !.ret = "raised"]

\* PUT or DELETE /v1/policies/<id>: the engine adds or drops the module when
\* it answers with success.
EnginePutPolicy(modules, policy_id, answer) ==
  IF answer \in {"200", "201"} THEN modules \cup {policy_id} ELSE modules
EngineDeletePolicy(modules, policy_id, answer) ==
  IF answer \in {"200", "204"} THEN modules \ {policy_id} ELSE modules

\* validate_rego: "except OPAConnectionError: return False, error_detail"
\* around the upload of the temporary module.
is_valid_always(put) == TRUE
is_valid(put) == put.exc # "OPAConnectionError"

\* upload_policy, step 1, first request of validate_rego: the content is
\* uploaded to the engine as a temporary module; "if not is_valid: raise
\* ValidationError".
UploadValidatePut ==
  /\ handler.pc = "validate_put"
  /\ \E answer \in Answers :
       LET put == upload_policy(answer, "")
           x == [handler EXCEPT !.stages = Append(@, "validate"), !.validated = answer]
       IN /\ policies' = [policies EXCEPT !.opa = EnginePutPolicy(@, TempPolicyId, answer)]
          /\ handler' = IF is_valid(put) THEN [x EXCEPT !.pc = "validate_delete"]
                        ELSE UploadRaise(x, "ValidationError")
  /\ UNCHANGED <<store, nextId, engine, req, life, ops, lastSync, hist, call, apps>>

\* upload_policy, step 1, second request of validate_rego: the temporary
\* module is deleted; the answer's status is not looked at, and an exception of
\* the client is raised again as OPAConnectionError by "except Exception".
UploadValidateDelete ==
  /\ handler.pc = "validate_delete"
  /\ \E answer \in Answers :
       /\ policies' = [policies EXCEPT !.opa = EngineDeletePolicy(@, TempPolicyId, answer)]
       /\ handler' = IF answer \in Statuses THEN [handler EXCEPT !.pc = "s3"]
                     ELSE UploadRaise(handler, "OPAConnectionError")
  /\ UNCHANGED <<store, nextId, engine, req, life, ops, lastSync, hist, call, apps>>

\* upload_policy, step 3: s3_service.upload_policy_file; every failure is an
\* S3Error, raised again.
UploadS3 ==
  /\ handler.pc = "s3"
  /\ LET x == [handler EXCEPT !.stages = Append(@, "s3")]
     IN \/ /\ handler' = UploadRaise([x EXCEPT !.stored = "S3Error"], "S3Error")
           /\ UNCHANGED policies
        \/ /\ handler' = [x EXCEPT !.pc = "db", !.stored = "ok"]
           /\ policies' = [policies EXCEPT !.s3 = @ \cup {S3Key(handler.id, "v2")}]
  /\ UNCHANGED <<store, nextId, engine, req, life, ops, lastSync, hist, call, apps>>

\* upload_policy, step 4: CustomPolicyRepository.create: add, commit, refresh.
\* The INSERT is refused with IntegrityError when the id exists; any other
\* SQLAlchemyError fails the commit, or the refresh after it; each is raised as
\* DatabaseError.
UploadSave ==
  /\ handler.pc = "db"
  /\ LET x == [handler EXCEPT !.stages = Append(@, "db")]
         saved == [policies EXCEPT !.db = @ \cup {handler.id}]
     IN \/ /\ handler' = UploadRaise(x, "DatabaseError")
           /\ UNCHANGED policies
        \/ /\ handler.id \notin policies.db
           /\ policies' = saved
           /\ \/ handler' = UploadRaise(x, "DatabaseError")
              \/ handler' = [x EXCEPT !.pc = "opa"]
  /\ UNCHANGED <<store, nextId, engine, req, life, ops, lastSync, hist, call, apps>>

\* upload_policy, step 5: opa_service.upload_policy; "except
\* OPAConnectionError" logs and goes on to "return created_policy".
UploadOpa ==
  /\ handler.pc = "opa"
  /\ \E answer \in Answers :
       /\ policies' = [policies EXCEPT !.opa = EnginePutPolicy(@, handler.id, answer)]
       /\ handler' = [handler EXCEPT !.pc = "done", !.stages = Append(@, "opa"),
                                     !.uploaded = answer, !.ret = "created_policy"]
  /\ UNCHANGED <<store, nextId, engine, req, life, ops, lastSync, hist, call, apps>>

NextUpload ==
  \/ UploadValidatePut
  \/ UploadValidateDelete
  \/ UploadS3
  \/ UploadSave
  \/ UploadOpa

SpecUpload == InitUpload /\ [][NextUpload]_vars

\* ------------------------------------------------------------------ properties
Projection(rows) == get_all_as_opa_data(rows).role_mappings

\* The handler of slot r gets the engine's acceptance of its PUT in this step.
ReqPushAccepted(r) ==
  req[r].pc = "sync_push" /\ req'[r].pc = "done" /\ req'[r].exc = "none"

\* lifespan's resync gets the engine's acceptance of its PUT in this step.
LifePushAccepted == life.pc = "sync_push" /\ life'.synced = "True"

\* What the handler of slot r wrote is what the table holds.
Persisted(x) ==
  IF x.op = "delete" THEN \A y \in store : y.id # x.loaded.id ELSE x.loaded \in store

\* C1: in every reachable state, under every interleaving of creates, updates
\* and deletes, no two rows of the table share (application_id, environment,
\* ad_group).
C1_UniqueTriples ==
  Cardinality({Triple(x) : x \in store}) = Cardinality(store)

\* A second row was stored and a write that repeated a triple was attempted.
C1_Witness ==
  /\ Cardinality(store) >= 2
  /\ \E r \in Reqs : req[r].dup

\* C2: a create whose triple is already in the table ends in the step of its
\* INSERT: the table and the engine are as before, nothing is pushed, the
\* service raises DatabaseError, and when the database answered the INSERT
\* (the statement did not fail for a reason of its own) the error is the
\* "already exists" one, which the router answers with 409.
C2_DuplicateCreateRefused ==
  [][\A r \in Reqs :
       (req[r].pc = "create_write" /\ req'[r].pc # "create_write" /\ req'[r].dup)
       => /\ store' = store
          /\ engine' = engine
          /\ req'[r].pc = "done"
          /\ req'[r].exc = "DatabaseError"
          /\ req'[r].pushes = 0
          /\ ~req'[r].committed
          /\ ~req'[r].fault => /\ req'[r].msg = MsgCreateExists
                               /\ HttpStatus(req'[r]) = 409]_vars

\* A create was refused for its triple while the table held that one row.
C2_Witness ==
  \E r \in Reqs :
    /\ req[r].op = "create" /\ req[r].dup /\ req[r].pc = "done"
    /\ ~req[r].fault /\ HttpStatus(req[r]) = 409
    /\ Cardinality(store) = 1

C4_FailedWriteNoPush ==
  \A r \in Reqs :
    (req[r].exc = "DatabaseError" /\ ~req[r].writeOk)
    => /\ req[r].pc = "done"
       /\ req[r].pushes = 0
       /\ req[r].path = None
       /\ req[r].doc = EmptyDict
       /\ HttpStatus(req[r]) \in {409, 500}

\* An update failed in the store for a reason other than the index.
C4_Witness ==
  \E r \in Reqs :
    /\ req[r].pc = "done" /\ req[r].op = "update" /\ req[r].exc = "DatabaseError"
    /\ ~req[r].writeOk /\ req[r].fault /\ req[r].loaded # NoRow

\* C5: when the store write succeeded and the engine did not accept the PUT
\* that followed, the handler ends with OPAConnectionError (503, not the store's
\* error) and, no other request having run meanwhile, the table still holds
\* what the handler wrote.
C5_PushFailureKeepsWrite ==
  \A r \in Reqs :
    (req[r].pc = "done" /\ req[r].pushes = 1 /\ req[r].answer \notin {"200", "204"})
    => /\ req[r].writeOk
       /\ req[r].exc = "OPAConnectionError"
       /\ HttpStatus(req[r]) = 503
       /\ req[r].alone => Persisted(req[r])

\* An update changed a row, the engine answered 500, and the row is as updated.
C5_Witness ==
  \E r \in Reqs :
    /\ req[r].pc = "done" /\ req[r].op = "update" /\ req[r].committed
    /\ req[r].answer = "500" /\ req[r].exc = "OPAConnectionError"
    /\ req[r].alone /\ req[r].loaded \in store

\* C6 as stated: an outcome reported as a rejection (409 conflict, 500 store
\* failure) never occurs when the write was committed to the table.
C6_RejectionMeansNotStored ==
  \A r \in Reqs :
    (req[r].pc = "done" /\ HttpStatus(req[r]) \in {409, 500}) => ~req[r].committed

\* C7: when a create, update or delete ends successfully and no other request
\* ran meanwhile, the engine's role_mappings document is the projection of the
\* table, and the table holds what the handler wrote.
C7_EngineReflectsWrite ==
  \A r \in Reqs :
    (req[r].pc = "done" /\ req[r].ret \in {"returned", "True"} /\ req[r].alone)
    => /\ engine["role_mappings"] = Projection(store)
       /\ Persisted(req[r])

\* A create ended successfully, alone, and its row is in the engine's document.
C7_Witness ==
  \E r \in Reqs :
    /\ req[r].pc = "done" /\ req[r].op = "create" /\ req[r].ret = "returned"
    /\ req[r].alone /\ Cardinality(store) = 2
    /\ LET x == req[r].loaded
       IN engine["role_mappings"][x.application_id][x.environment][x.ad_group] = x.role

\* C8 as stated: a resync that reads the table after an accepted resync, the
\* table not having changed since that one read it, builds the document that
\* one pushed; and an accepted PUT of that document leaves the engine's
\* documents as they were.
C8_ResyncIdempotent ==
  [][/\ \A r \in Reqs :
          /\ (req[r].pc = "sync_read" /\ req'[r].pc = "sync_push"
              /\ lastSync.valid /\ lastSync.fresh)
             => req'[r].doc = engine["role_mappings"]
          /\ (ReqPushAccepted(r) /\ req[r].doc = engine["role_mappings"])
             => engine' = engine
     /\ (life.pc = "sync_read" /\ life'.pc = "sync_push"
         /\ lastSync.valid /\ lastSync.fresh)
        => life'.doc = engine["role_mappings"]
     /\ (LifePushAccepted /\ life.doc = engine["role_mappings"])
        => engine' = engine]_vars

\* C9: for a table of N rows with pairwise distinct triples the value
\* get_all_as_opa_data returns holds, under its one key role_mappings, a
\* document whose leaves are exactly the N rows: document[application_id]
\* [environment][ad_group] is the row's role, and no other key path exists.
Leaves(d) ==
  UNION {UNION {{<<a, e, g, d[a][e][g]>> : g \in DOMAIN d[a][e]} : e \in DOMAIN d[a]} :
           a \in DOMAIN d}

C9_ProjectionExact ==
  life.pc = "projected"
  => LET d == life.opa_data.role_mappings
     IN /\ DOMAIN life.opa_data = {"role_mappings"}
        /\ Leaves(d) = {<<x.application_id, x.environment, x.ad_group, x.role>> : x \in store}
        /\ Cardinality(Leaves(d)) = Cardinality(store)
        /\ \A a \in DOMAIN d :
             /\ DOMAIN d[a] # {}
             /\ \A e \in DOMAIN d[a] : DOMAIN d[a][e] # {}

\* Three rows were projected, two of them under one application and
\* environment, the third under another application.
C9_Witness ==
  /\ life.pc = "projected"
  /\ Cardinality(store) = 3
  /\ \E x \in store, y \in store, z \in store :
       /\ x.id # y.id
       /\ x.application_id = y.application_id /\ x.environment = y.environment
       /\ z.application_id # x.application_id

\* C10 as stated: while a committed write waits for its push, which failed,
\* the next resync whose PUT is accepted, that of a handler which arrived
\* after the failure or that of lifespan, leaves the engine's role_mappings
\* document equal to the projection of the table, unless a write was committed
\* after that resync read the table.
C10_NextResyncHeals ==
  [][/\ \A r \in Reqs :
          (ReqPushAccepted(r) /\ lastSync.unsynced /\ req[r].late /\ ~req[r].stale)
          => engine'["role_mappings"] = Projection(store)
     /\ (LifePushAccepted /\ lastSync.unsynced)
        => engine'["role_mappings"] = Projection(store)]_vars

\* C11: when every probe of health_check fails in transport, there are
\* exactly 3 probes, health_check sleeps 1 second before the 2nd and 2 seconds
\* before the 3rd and not after it, and then raises OPAConnectionError "OPA
\* server is unreachable" whose detail is the text of the last transport
\* error.
C11_ThreeProbesBackoffRaise ==
  LET n == Len(life.outcomes)
  IN (\A i \in 1..n : life.outcomes[i] \in TransportErrors)
     => /\ n <= 3
        /\ life.probes = n
        /\ life.delays = SubSeq(<<1, 2>>, 1, IF n < 3 THEN n ELSE 2)
        /\ \A i \in 1..(Len(life.delays) - 1) : life.delays[i] <= life.delays[i + 1]
        /\ life.healthy = IF n = 3 THEN "raised" ELSE "none"
        /\ n = 3 => /\ life.exc = "OPAConnectionError"
                    /\ life.detail = life.outcomes[3]
                    /\ life.pc = "ready"
        /\ n < 3 => life.exc = "none"

\* Three probes failed, the last one differently from the first two.
C11_Witness ==
  /\ life.outcomes = <<"ConnectError", "ConnectError", "ReadTimeout">>
  /\ life.healthy = "raised"
  /\ life.detail = "ReadTimeout"

\* C12 as stated: the probe that is answered with a status other than 200 is
\* the last one: health_check returns False in that step, with no further
\* probe, no sleep and no exception.
C12_NonOkStatusReturnsAtOnce ==
  [][(/\ life.pc = "health"
      /\ Len(life'.outcomes) = Len(life.outcomes) + 1
      /\ life'.outcomes[Len(life'.outcomes)] \notin TransportErrors \cup {"200"})
     => /\ life'.pc # "health"
        /\ life'.healthy = "False"
        /\ life'.delays = life.delays]_vars

\* C13 as stated: the kind of the error health_check raises when its attempts
\* are exhausted is raised by no other method of the client.
C13_UnreachableKindOnlyFromHealthCheck ==
  (call.pc = "done" /\ call.exc # "none") => call.exc # HealthCheckError

\* C14: push_policy_data returns True exactly when the engine answers the PUT
\* with 200 or 204; for every other status, every transport failure and every
\* other exception it raises OPAConnectionError and returns nothing.
C14_PushSucceedsIffReplaced ==
  (call.pc = "done" /\ call.method = "push_policy_data")
  => /\ call.ret = "True" <=> call.answer \in {"200", "204"}
     /\ call.ret = "True" => call.exc = "none"
     /\ call.answer \notin {"200", "204"}
        => /\ call.ret = "raised"
           /\ call.exc = "OPAConnectionError"

\* The engine answered the PUT with 201, a success of the policy API only.
C14_Witness ==
  /\ call.method = "push_policy_data"
  /\ call.answer = "201"
  /\ call.exc = "OPAConnectionError"
  /\ engine["role_mappings"] = EmptyDict

\* C15 as stated: when the engine answers a push, a policy upload or an
\* evaluation with a status that is not a success, the detail of the exception
\* the caller gets holds that status and the body of the response.
C15_DetailCarriesStatusAndBody ==
  (call.pc = "done" /\ call.answer \in Statuses /\ call.exc # "none")
  => call.detail = StatusDetail(call.answer, call.body)

\* C16: start-up never ends anywhere but in serving: whatever the health
\* check, the upload of the base policy and the resync do (succeed, return
\* False, raise), lifespan reaches its yield; a failed resync is only logged,
\* lifespan going on to the yield.
C16_StartupAlwaysServes ==
  /\ [](life.pc \in {"health", "upload", "sync_read", "sync_push", "ready", "serving"})
  /\ [](life.synced = "failed" => life.pc = "ready")
  /\ (life.pc # "serving") ~> (life.pc = "serving")

\* The resync of start-up failed at its push and lifespan is about to yield.
C16_Witness ==
  /\ life.pc = "ready"
  /\ life.synced = "failed"
  /\ life.pushes = 1
  /\ life.healthy = "True"

\* C17 as stated: lifespan attempts at most one resync, and only after
\* health_check reported the engine healthy and the base policy was uploaded.
C17_ResyncOnlyWhenHealthy ==
  /\ life.pushes <= 1
  /\ (life.pc \in {"sync_read", "sync_push"} \/ life.synced # "none" \/ life.pushes > 0)
     => (life.healthy = "True" /\ life.uploaded = "True")

\* The mutation of a slot ended successfully after a resync of its own.
Succeeded(x) == x.pc = "done" /\ x.ret \in {"returned", "True"} /\ x.pushes = 1

WriteStep(r) ==
  /\ req[r].pc \in {"create_write", "update_write"}
  /\ req'[r].pc # req[r].pc

\* Request q, which overlaps r, has committed its row, and the table holds no
\* other row than that one and the row r loaded: a triple r's write repeats is
\* the one q committed.
CollidesWith(r, q) ==
  /\ q # r /\ req[q].pc # "idle" /\ ~req[r].alone
  /\ req[q].op \in {"create", "update"} /\ req[q].committed
  /\ req[q].loaded \in store
  /\ \A y \in store : y = req[q].loaded \/ y.id = req[r].loaded.id

\* C19: of two overlapping mutations that produce the same triple on
\* different rows, the one whose write comes second is refused: its write
\* step leaves the table and the engine as they are, the handler ends at once
\* with DatabaseError and no push, and, unless the statement failed for a
\* reason other than the index, the message is the conflict message, which the
\* router answers with 409; the first one's row stays the only row with that
\* triple.
C19_CollisionLoserRefused ==
  [][\A r \in Reqs, q \in Reqs :
       (WriteStep(r) /\ CollidesWith(r, q) /\ req'[r].dup)
       => /\ store' = store /\ hist' = hist
          /\ engine' = engine
          /\ req'[r].pc = "done" /\ req'[r].ret = "raised"
          /\ req'[r].exc = "DatabaseError"
          /\ ~req'[r].committed /\ req'[r].pushes = 0
          /\ ~req'[r].fault
             => /\ IsConflictMessage(req'[r].msg)
                /\ HttpStatus(req'[r]) = 409
          /\ req'[q].committed /\ req'[q].loaded \in store'
          /\ Cardinality({y \in store' : Triple(y) = Triple(req[q].loaded)}) = 1]_vars

\* An update that would have given its row the triple of a row an overlapping
\* create had just committed ended with the conflict message.
C19_Witness ==
  \E r \in Reqs, q \in Reqs :
    /\ r # q
    /\ req[r].pc = "done" /\ req[r].op = "update" /\ req[r].dup /\ ~req[r].fault
    /\ req[r].msg = MsgUpdateConflict /\ ~req[r].committed /\ ~req[r].alone
    /\ req[q].op = "create" /\ req[q].committed /\ req[q].pc \in {"sync_read", "sync_push"}
    /\ req[q].loaded \in store
    /\ Triple(req[q].loaded) # Triple(req[r].loaded)
    /\ Cardinality(store) = 2

\* C20 as stated: every document get_all_as_opa_data produced, for a handler
\* or for lifespan, is the projection of a content the table has had.
C20_DocumentOfOneInstant ==
  /\ \A r \in Reqs :
       req[r].pc = "sync_push" => \E S \in hist : req[r].doc = Projection(S)
  /\ life.pc = "sync_push" => \E S \in hist : life.doc = Projection(S)

\* The state SpecMix starts from, as Spec reaches it with its two requests.
MixStateReached == MixState /\ ops = MaxOps

\* The fields an update can supply.
UpdateFields == {"environment", "ad_group", "role"}

\* The row of the table with the given id (NoRow when there is none).
RowOf(rows, id) ==
  IF \E y \in rows : y.id = id THEN CHOOSE y \in rows : y.id = id ELSE NoRow

\* C21 as stated: the commit of an update leaves in the table, for the row
\* it loaded, the supplied value in every supplied field among environment,
\* ad_group and role and the value the row had in every other field, id and
\* application_id included; no other row changes; and the record the handler
\* keeps for its response, and returns, is that row.
C21_UpdateChangesSuppliedFields ==
  [][\A r \in Reqs :
       /\ (req[r].pc = "update_write" /\ req'[r].pc = "sync_read")
          => LET d == req'[r].data
                 old == RowOf(store, req[r].loaded.id)
                 new == RowOf(store', req[r].loaded.id)
             IN /\ old # NoRow /\ new # NoRow
                /\ new.application_id = old.application_id
                /\ \A f \in UpdateFields :
                     new[f] = IF d[f] # None THEN d[f] ELSE old[f]
                /\ store' \ {new} = store \ {old}
                /\ req'[r].loaded = new
       /\ (req[r].op = "update" /\ req[r].pc = "sync_push" /\ req'[r].ret = "returned")
          => \A f \in UpdateFields :
               req[r].data[f] # None => req'[r].loaded[f] = req[r].data[f]]_vars

\* C22: a delete whose lookup finds no row with the given id ends at once
\* with False, no exception, no push, and the table and the engine as they
\* were; one whose lookup finds the row goes on to remove it, after which the
\* table holds no row with that id; and a delete returns True only for a row
\* its lookup found, which the table no longer holds, after one push.  A
\* delete that ends without an exception returns True when it ends after the
\* push that follows the removal and False when it ends at the lookup.
C22_DeleteReturnsWhetherRemoved ==
  [][\A r \in Reqs :
       /\ (req[r].pc = "delete_load" /\ req'[r].pc # "delete_load" /\ ~req'[r].fault)
          => IF \E y \in store : y.id = req'[r].mapping_id
             THEN /\ req'[r].pc = "delete_write"
                  /\ req'[r].loaded \in store
                  /\ req'[r].loaded.id = req'[r].mapping_id
             ELSE /\ req'[r].pc = "done" /\ req'[r].ret = "False"
                  /\ req'[r].exc = "none" /\ req'[r].pushes = 0
                  /\ store' = store /\ engine' = engine
       /\ (req[r].pc = "delete_write" /\ req'[r].pc = "sync_read")
          => store' = {y \in store : y.id # req[r].mapping_id}
       /\ (req[r].op = "delete" /\ req[r].pc # "done" /\ req'[r].pc = "done"
           /\ req'[r].ret = "True")
          => /\ req[r].loaded.id = req[r].mapping_id
             /\ \A y \in store' : y.id # req[r].mapping_id
             /\ req'[r].pushes = 1
       /\ (req[r].op = "delete" /\ req[r].pc # "done" /\ req'[r].pc = "done"
           /\ req'[r].exc = "none")
          => /\ req'[r].ret = "True" <=> req[r].pc = "sync_push"
             /\ req'[r].ret = "False" <=> req[r].pc = "delete_load"]_vars

\* A delete of an id the table does not hold ended with False while the table
\* held a row.
C22_Witness ==
  \E r \in Reqs :
    /\ req[r].pc = "done" /\ req[r].op = "delete" /\ req[r].ret = "False"
    /\ req[r].pushes = 0 /\ req[r].exc = "none"
    /\ store # {} /\ \A y \in store : y.id # req[r].mapping_id

\* C26: an update whose lookup finds no row with the given id ends at once
\* with ValidationError "not found", which the router answers with 404; it
\* commits nothing, sends no push, and leaves the table and the engine as
\* they were.
C26_UpdateOfMissingIdRefused ==
  [][\A r \in Reqs :
       (/\ req[r].pc = "update_load" /\ req'[r].pc # "update_load" /\ ~req'[r].fault
        /\ \A y \in store : y.id # req'[r].mapping_id)
       => /\ req'[r].pc = "done" /\ req'[r].ret = "raised"
          /\ req'[r].exc = "ValidationError" /\ req'[r].msg = MsgNotFound
          /\ HttpStatus(req'[r]) = 404
          /\ ~req'[r].committed /\ ~req'[r].writeOk /\ req'[r].pushes = 0
          /\ store' = store /\ hist' = hist /\ engine' = engine]_vars

\* An update of an id the table does not hold ended with ValidationError while
\* the table held a row.
C26_Witness ==
  \E r \in Reqs :
    /\ req[r].pc = "done" /\ req[r].op = "update" /\ req[r].exc = "ValidationError"
    /\ req[r].pushes = 0
    /\ store # {} /\ \A y \in store : y.id # req[r].mapping_id

\* C27: the write step of an update that would give its row the triple of
\* another row of the table commits nothing: the table, the row the update
\* loaded included, and the engine stay as they were, the handler ends at once
\* with DatabaseError and no push, and, unless the statement failed for a
\* reason other than the index, the message is the conflict message, which the
\* router answers with 409.
C27_UpdateConflictKeepsRow ==
  [][\A r \in Reqs :
       (req[r].pc = "update_write" /\ req'[r].pc # "update_write" /\ req'[r].dup)
       => /\ store' = store /\ hist' = hist /\ engine' = engine
          /\ RowOf(store', req[r].mapping_id) = RowOf(store, req[r].mapping_id)
          /\ req'[r].pc = "done" /\ req'[r].ret = "raised"
          /\ req'[r].exc = "DatabaseError"
          /\ ~req'[r].committed /\ ~req'[r].writeOk /\ req'[r].pushes = 0
          /\ ~req'[r].fault
             => /\ req'[r].msg = MsgUpdateConflict
                /\ HttpStatus(req'[r]) = 409]_vars

\* An update that ran alone was refused for the triple of another row, and
\* the table still holds its row as the update loaded it.
C27_Witness ==
  \E r \in Reqs :
    /\ req[r].pc = "done" /\ req[r].op = "update" /\ req[r].alone
    /\ req[r].dup /\ ~req[r].fault /\ req[r].msg = MsgUpdateConflict
    /\ req[r].loaded \in store /\ Cardinality(store) = 2
    /\ \A y \in store : \A z \in store : y.id # z.id => Triple(y) # Triple(z)

\* C28: whatever the probes of health_check answer, it sends at most 3
\* requests, none after one that was answered with 200; it returns True when
\* and only when its last probe was answered with 200; and it always ends.
C28_HealthCheckBounded ==
  /\ [](LET n == Len(life.outcomes)
        IN /\ life.probes = n /\ n <= max_retries
           /\ \A i \in 1..n : life.outcomes[i] = "200" => i = n
           /\ (n > 0 /\ life.outcomes[n] = "200")
              => (life.healthy = "True" /\ life.pc # "health")
           /\ life.healthy = "True" => (n > 0 /\ life.outcomes[n] = "200")
           /\ (life.pc = "health" /\ n > 0) => life.healthy = "none")
  /\ (life.pc = "health") ~> (life.pc # "health")

\* health_check returned True at its third probe, after an answer other than
\* 200 and a failure in transport.
C28_Witness ==
  /\ life.healthy = "True"
  /\ Len(life.outcomes) = 3
  /\ life.outcomes[1] = "503"
  /\ life.outcomes[2] \in TransportErrors
  /\ life.outcomes[3] = "200"

\* C23: when evaluate_app_permission answers 200, its role is the role the
\* engine's decision gives the requested application, and "none" when the
\* decision has no entry for it or the engine's answer holds no decision.
C23_RoleOfDecisionOrNone ==
  (handler.pc = "done" /\ handler.op = "evaluate_app_permission" /\ handler.status = 200)
  => /\ call.answer = "200"
     /\ IF "result" \in DOMAIN call.body /\ handler.app_id \in DOMAIN call.body.result
        THEN handler.role = call.body.result[handler.app_id]
        ELSE handler.role = "none"

\* The decision gave a role to another application only, and the response
\* carries "none".
C23_Witness ==
  /\ handler.pc = "done" /\ handler.status = 200 /\ handler.role = "none"
  /\ handler.app_id = "app-a"
  /\ "result" \in DOMAIN call.body
  /\ DOMAIN call.body.result = {"app-b"}
  /\ call.body.result["app-b"] = "admin"

\* C24: when the engine's answer to the evaluation is a failure in transport
\* or a status other than 200, evaluate_permissions raises
\* OPAConnectionError, and the handler answers 503 with no role and no
\* permission map.
C24_NoLocalFallback ==
  (call.pc = "done" /\ call.method = "evaluate_permissions" /\ call.answer # "200")
  => /\ call.ret = "raised" /\ call.exc = "OPAConnectionError"
     /\ handler.pc = "done" /\ handler.status = 503
     /\ handler.exc = "OPAConnectionError"
     /\ handler.role = None /\ handler.permissions = None

\* The engine answered 500 with a decision in the body, and the handler
\* answered 503.
C24_Witness ==
  /\ call.pc = "done" /\ call.answer = "500"
  /\ "result" \in DOMAIN call.body
  /\ handler.app_id \in DOMAIN call.body.result
  /\ handler.status = 503 /\ handler.role = None

\* C25 as stated: the response of GET /health/opa, and the opa component of
\* the response of GET /health, are healthy (with status 200 for GET
\* /health/opa) only when the last probe of the engine was answered with 200,
\* and are unhealthy, with status 503, when it failed in transport or was
\* answered with another status.
C25_OpaHealthyOnlyOn200 ==
  (handler.pc = "done" /\ handler.op \in HealthEndpoints)
  => LET n == Len(handler.outcomes)
     IN IF n > 0 /\ handler.outcomes[n] = "200"
        THEN /\ handler.opa = "healthy"
             /\ handler.op = "health_check_opa" => handler.status = 200
        ELSE /\ handler.opa = "unhealthy"
             /\ handler.status = 503

\* The application's deletion is committed in this step.
AppDeleted == handler.pc = "app_delete_write" /\ handler'.status = 204

\* C29: the step that commits an application's deletion removes every role
\* mapping of that application from the table and no other row, and sends
\* nothing to the policy engine: the engine's role_mappings document is left
\* as it was, no handler and no resync moves, and the document changes only in
\* a step in which a later resync's PUT is accepted.  The projection of the
\* table after the deletion has no entry for the application.
C29_AppDeleteCascadesWithoutPush ==
  [][/\ AppDeleted
        => /\ store' = {y \in store : y.application_id # handler.app_id}
           /\ handler.app_id \notin apps'
           /\ handler.app_id \notin DOMAIN Projection(store')
           /\ engine' = engine
           /\ ops' = ops /\ life' = life /\ call' = call
           /\ \A r \in Reqs : req'[r].pc = req[r].pc /\ req'[r].pushes = req[r].pushes
     /\ engine' # engine => (\E r \in Reqs : ReqPushAccepted(r)) \/ LifePushAccepted]_vars

\* An application with mappings was deleted: the table has none of its rows
\* and the engine's document still has its entries.
C29_Witness ==
  /\ handler.pc = "done" /\ handler.op = "delete_application" /\ handler.status = 204
  /\ handler.app_id \in DOMAIN engine["role_mappings"]
  /\ \A y \in store : y.application_id # handler.app_id
  /\ handler.app_id \notin apps

\* The stages of upload_policy in their order.
UploadStages == <<"validate", "s3", "db", "opa">>

====
